---- MODULE Spec2Model ----
(***************************************************************************)
(* A model of llmc/eval/eval_vqa.py: VQAEval.eval (the orchestration of    *)
(* one evaluation run), its inner helper _adjust_config (the rewrite of    *)
(* the task tree) and VQAEval.set_statistics_modules (the forward hooks    *)
(* that count and time prefill and decode calls).                          *)
(*                                                                         *)
(* Python values are modelled as follows.                                  *)
(*   Optional[x]      the empty sequence for None, <<x>> for a value       *)
(*   dict (ordered)   a sequence of [name, node] entries with distinct     *)
(*                    names (a task tree), or a function (kwargs)          *)
(*   task object      a record; mutation in place is a new record          *)
(*   time.time()      the variable now, which never runs backwards         *)
(***************************************************************************)
EXTENDS Integers, Sequences, FiniteSets, TLC

\* ------------------------------------------------------------------------
\* Bounds of the model
\* ------------------------------------------------------------------------

\* the largest number of nodes (leaves, pairs, groups) of a task tree
MaxNodes == 3

\* how many runs with statistics enabled may install hooks on the one model
MaxInstalls == 2

\* how many forward calls the model serves in all; one takes 0 or 1 ticks
MaxForwards == 3

\* ------------------------------------------------------------------------
\* Values
\* ------------------------------------------------------------------------

None == << >>

Some(v) == << v >>

IsNone(o) == o = None

Names == {"a", "b"}

OutputTypes == {"generate_until", "loglikelihood"}

\* the num_fewshot a task's YAML may configure: unset, 0, or a positive count
FewshotDefaults == {None, Some(0), Some(3)}

EmptyMap == [k \in {} |-> ""]

\* generation_kwargs of a task as its YAML configures them
DefaultGenerationKwargs == [temperature |-> "1", until |-> "eos"]

\* A leaf task object as the task registry returns it.
Leaf(ot, d) ==
    [kind |-> "leaf", output_type |-> ot, num_fewshot |-> d,
     generation_kwargs |-> DefaultGenerationKwargs, metric |-> "acc",
     fewshot_seed |-> None, seed_calls |-> 0, dataset |-> "vqa"]

Leaves == {Leaf(ot, d) : ot \in OutputTypes, d \in FewshotDefaults}

NoTask == [kind |-> "none"]

\* a (group, task) tuple; task is a leaf or None
Pair(t) == [kind |-> "pair", task |-> t]

Group(children) == [kind |-> "group", children |-> children]

Entry(n, node) == [name |-> n, node |-> node]

EntryNames(m) == {m[i].name : i \in 1..Len(m)}

\* the nodes of exactly k nodes: a leaf or a pair (k = 1), or a group
RECURSIVE MappingsOfSize(_)
NodesOfSize(k) ==
    (IF k = 1 THEN Leaves \cup {Pair(l) : l \in Leaves \cup {NoTask}} ELSE {})
    \cup {Group(c) : c \in MappingsOfSize(k - 1)}

\* The task trees of exactly n nodes: ordered mappings with distinct keys.
MappingsOfSize(n) ==
    IF n = 0 THEN {<< >>}
    ELSE UNION { UNION {
            {<<Entry(nm, nd)>> \o rest :
                nd \in NodesOfSize(k),
                rest \in {r \in MappingsOfSize(n - k) : nm \notin EntryNames(r)}}
            : nm \in Names}
        : k \in 1..n}

TaskTrees == UNION {MappingsOfSize(n) : n \in 0..MaxNodes}

\* ------------------------------------------------------------------------
\* Pure helpers of _adjust_config
\* ------------------------------------------------------------------------

\* 'generate_until' in task_obj.get_config('output_type'): a substring test
IsGenerateUntil(ot) == ot \in {"generate_until", "generate_until_multi_round"}

\* simple_parse_args_string: "k1=v1,k2=v2" (a sequence of <<key, value>>
\* pairs) becomes a dict; a later pair of the same key wins
SimpleParseArgsString(s) ==
    [k \in {s[i][1] : i \in 1..Len(s)} |->
        s[CHOOSE i \in 1..Len(s) :
            s[i][1] = k /\ \A j \in (i + 1)..Len(s) : s[j][1] # k][2]]

\* lines 124-128: gen_kwargs as _adjust_config sees it. None stays None, the
\* empty string is falsy and is kept as it is (updating a dict with '' adds
\* nothing), any other string is parsed.
ParseGenKwargs(gk) ==
    IF IsNone(gk) THEN None
    ELSE IF gk[1] = << >> THEN Some(EmptyMap)
    ELSE Some(SimpleParseArgsString(gk[1]))

\* set_config(key, value, update=True): dict.update
DictUpdate(cur, val) ==
    [k \in DOMAIN cur \cup DOMAIN val |->
        IF k \in DOMAIN val THEN val[k] ELSE cur[k]]

\* lines 170-174
SetGenerationKwargs(task, gen_kwargs) ==
    IF IsGenerateUntil(task.output_type) /\ ~IsNone(gen_kwargs)
    THEN [task EXCEPT !.generation_kwargs = DictUpdate(@, gen_kwargs[1])]
    ELSE task

\* lines 176-182: task_obj.override_metric(metric_name='bypass')
OverrideMetric(task, predict_only) ==
    IF predict_only THEN [task EXCEPT !.metric = "bypass"] ELSE task

\* ResolveNumFewshot with the overwrite of line 201 and the default of line
\* 208 both left out
ResolveNumFewshotKeep(nf, d) == d

\* lines 188-208: the num_fewshot of a leaf whose configured value is d, given
\* the num_fewshot nf that _adjust_config reads from the enclosing scope
ResolveNumFewshot(nf, d) ==
    IF ~IsNone(nf)
    THEN IF d = Some(0) THEN d ELSE nf
    ELSE IF IsNone(d) THEN Some(0) ELSE d

\* line 211: task_obj.set_fewshot_seed(seed=fewshot_random_seed)
SetFewshotSeed(task, seed) ==
    [task EXCEPT !.fewshot_seed = Some(seed), !.seed_calls = @ + 1]

\* lines 169-214: what the loop body does to one leaf task object
AdjustLeaf(task, env) ==
    LET t1 == SetGenerationKwargs(task, env.gen_kwargs)
        t2 == OverrideMetric(t1, env.predict_only)
        t3 == [t2 EXCEPT !.num_fewshot =
                            ResolveNumFewshot(env.num_fewshot, t2.num_fewshot)]
    IN  SetFewshotSeed(t3, env.fewshot_random_seed)

\* lines 165-168: a (group, task) tuple whose task is None is skipped
IsDropped(node) == node.kind = "pair" /\ node.task.kind = "none"

\* lines 164-166: the task object of an entry that is not a dict
TaskOf(node) == IF node.kind = "pair" THEN node.task ELSE node

\* DictInsert merging the new key in front of the old ones
DictInsertFront(d, name, node) == <<Entry(name, node)>> \o d

\* adjusted_task_dict[task_name] = value, on a dict that has no such key yet
DictInsert(d, name, node) == Append(d, Entry(name, node))

\* lm.task_dict[task_name] = task_obj.dataset
RegisterDataset(ltd, name, ds) ==
    [n \in DOMAIN ltd \cup {name} |-> IF n = name THEN ds ELSE ltd[n]]

\* lines 154-216: _adjust_config, as a left-to-right loop over the items of
\* task_dict. out is adjusted_task_dict so far, ltd is lm.task_dict so far.
RECURSIVE AdjustLoop(_, _, _, _)
AdjustLoop(items, env, out, ltd) ==
    IF items = << >> THEN [adjusted |-> out, lm_task_dict |-> ltd]
    ELSE LET e == Head(items)
         IN  IF e.node.kind = "group"
             THEN LET sub == AdjustLoop(e.node.children, env, << >>, ltd)
                  IN  AdjustLoop(Tail(items), env,
                                 DictInsert(out, e.name, Group(sub.adjusted)),
                                 sub.lm_task_dict)
             ELSE IF IsDropped(e.node)
             THEN AdjustLoop(Tail(items), env, out, ltd)
             ELSE LET task == TaskOf(e.node)
                  IN  AdjustLoop(Tail(items), env,
                                 DictInsert(out, e.name, AdjustLeaf(task, env)),
                                 RegisterDataset(ltd, e.name, task.dataset))

AdjustConfig(task_dict, env, ltd) == AdjustLoop(task_dict, env, << >>, ltd)

\* ------------------------------------------------------------------------
\* State
\* ------------------------------------------------------------------------

VARIABLES
    pc,         \* "idle": no eval() in progress; "evaluating": eval() is
                \* inside evaluate(); "done": eval() has returned or raised,
                \* and what it left behind (result, trace, lm) can be seen
    self,       \* the VQAEval object eval() runs on
    args,       \* the keyword arguments of the eval() call in progress
    fetched,    \* the task tree as get_task_dict returned it
    task_dict,  \* the local task_dict after _adjust_config
    lm,         \* the model adapter of the run
    eval_call,  \* the arguments evaluate() was called with
    trace,      \* the external calls of the run, in the order they were made
    model,      \* llmc_model.vlm_model: its hooks and the attributes they keep
    now,        \* time.time()
    calls,      \* the forward calls evaluate() has made in this run
    forwards,   \* the number of forward calls the model has served
    stats_log,  \* the averages logged at the end of the run
    result      \* how the last eval() ended, and what it returned

vars == <<pc, self, args, fetched, task_dict, lm, eval_call, trace, model, now,
          calls, forwards, stats_log, result>>

\* ------------------------------------------------------------------------
\* VQAEval.__init__
\* ------------------------------------------------------------------------

\* config.eval: name is a string or a list of strings; statistics may be absent
EvalConfigs ==
    [name : {[is_list |-> FALSE, v |-> <<"a">>],
             [is_list |-> TRUE, v |-> <<"a">>],
             [is_list |-> TRUE, v |-> << >>]},
     bs : {4},
     statistics : {None, Some(TRUE), Some(FALSE)}]

\* A string s is modelled by [is_list |-> FALSE, v |-> <<s>>], so wrapping it
\* in a list keeps v.
VQAEvalInit(eval_config) ==
    [eval_dataset_name |-> eval_config.name.v,
     eval_bs |-> eval_config.bs,
     statistics |-> IF IsNone(eval_config.statistics) THEN FALSE
                    ELSE eval_config.statistics[1]]

\* an object built from {name: "a", path: ..., bs: 4}
PlainEval ==
    VQAEvalInit([name |-> [is_list |-> FALSE, v |-> <<"a">>], bs |-> 4,
                 statistics |-> None])

\* ------------------------------------------------------------------------
\* set_statistics_modules and its hooks
\* ------------------------------------------------------------------------

\* The model before any hook is installed. The four counters and start_time
\* do not exist yet; they are written before they are ever read.
FreshModel ==
    [pre_hooks |-> 0, post_hooks |-> 0, start_time |-> 0,
     prefill_count |-> 0, prefill_time |-> 0,
     decode_count |-> 0, decode_time |-> 0]

\* lines 49-56: zero the counters, register one pre-hook and one post-hook
SetStatisticsModules(m) ==
    [m EXCEPT !.prefill_count = 0, !.prefill_time = 0,
              !.decode_time = 0, !.decode_count = 0,
              !.pre_hooks = @ + 1, !.post_hooks = @ + 1]

\* how a forward call passes inputs_embeds: a tensor, None, or not at all
KwargKinds == {"tensor", "null", "absent"}

\* lines 34-37
StartTimeHook(m, t) == [m EXCEPT !.start_time = t]

\* line 42: kwargs['inputs_embeds'] raises KeyError when the key is absent
EndTimeHookRaises(kw) == kw = "absent"

\* lines 39-47, for a call whose kwargs hold the key
EndTimeHook(m, kw, t) ==
    LET elapsed_prefill == t - m.start_time
    IN  IF kw = "tensor"
        THEN [m EXCEPT !.prefill_count = @ + 1,
                       !.prefill_time = @ + elapsed_prefill]
        ELSE [m EXCEPT !.decode_count = @ + 1,
                       !.decode_time = @ + elapsed_prefill]

\* every registered post-hook runs, in registration order
RECURSIVE RunEndTimeHooks(_, _, _, _)
RunEndTimeHooks(m, kw, t, n) ==
    IF n = 0 THEN m ELSE RunEndTimeHooks(EndTimeHook(m, kw, t), kw, t, n - 1)

\* ------------------------------------------------------------------------
\* VQAEval.eval
\* ------------------------------------------------------------------------

\* line 101: num_fewshot = 0, whatever the caller passed
LocalNumFewshot(arg) == Some(0)

\* SeedSteps with the torch seed forgotten
SeedStepsNoTorch(a) ==
    (IF IsNone(a.random_seed) THEN << >> ELSE <<"random.seed">>)
    \o (IF IsNone(a.numpy_random_seed) THEN << >> ELSE <<"np.random.seed">>)

\* lines 103-118
SeedSteps(a) ==
    (IF IsNone(a.random_seed) THEN << >> ELSE <<"random.seed">>)
    \o (IF IsNone(a.numpy_random_seed) THEN << >> ELSE <<"np.random.seed">>)
    \o (IF IsNone(a.torch_random_seed) THEN << >> ELSE <<"torch.manual_seed">>)

\* lines 138-140
StatisticsSteps(obj) ==
    IF obj.statistics
    THEN <<"set_statistics_modules", "reset_peak_memory_stats">>
    ELSE << >>

\* StepsToEvaluate with the hooks installed after _adjust_config
StepsToEvaluateLate(obj) ==
    <<"get_task_dict", "create_adapter", "_adjust_config">>
    \o StatisticsSteps(obj) \o <<"evaluate">>

\* lines 136-232: the external calls from the task lookup to evaluate()
StepsToEvaluate(obj) ==
    <<"get_task_dict">> \o StatisticsSteps(obj)
    \o <<"create_adapter", "_adjust_config", "evaluate">>

\* the closure variables _adjust_config reads
AdjustEnv(a) ==
    [num_fewshot |-> LocalNumFewshot(a.num_fewshot),
     gen_kwargs |-> ParseGenKwargs(a.gen_kwargs),
     predict_only |-> a.predict_only,
     fewshot_random_seed |-> a.fewshot_random_seed]

\* LogSamplesPassed without the override for predict_only
LogSamplesAsGiven(a) == a.log_samples

\* line 240
LogSamplesPassed(a) == IF a.predict_only THEN TRUE ELSE a.log_samples

NoArgs ==
    [num_fewshot |-> None, predict_only |-> FALSE, gen_kwargs |-> None,
     fewshot_random_seed |-> 1234, log_samples |-> TRUE,
     random_seed |-> Some(0), numpy_random_seed |-> Some(1234),
     torch_random_seed |-> Some(1234)]

NoAdapter ==
    [made |-> FALSE, rank |-> 0, has_model |-> FALSE, released |-> FALSE,
     task_dict |-> EmptyMap]

NoCall == [made |-> FALSE, log_samples |-> FALSE]

NoResult == [outcome |-> "none", config |-> EmptyMap]

Raised(e) == [outcome |-> e, config |-> EmptyMap]

\* lines 97-232: eval() from its entry to the call of evaluate(), on object
\* obj with arguments a; tree is what get_task_dict returns and ad is the
\* adapter create_from_arg_string returns.
EvalBegin(obj, a, tree, ad) ==
    /\ pc = "idle"
    /\ obj.statistics => model.pre_hooks < MaxInstalls
    /\ self' = obj
    /\ args' = a
    /\ calls' = << >>
    /\ stats_log' = None
    /\ UNCHANGED <<now, forwards>>
    /\ IF obj.eval_dataset_name = << >>
       THEN /\ trace' = SeedSteps(a) \o <<"AssertionError">>
            /\ result' = Raised("AssertionError")
            /\ pc' = "done"
            /\ fetched' = << >>
            /\ task_dict' = << >>
            /\ lm' = NoAdapter
            /\ eval_call' = NoCall
            /\ UNCHANGED model
       ELSE LET r == AdjustConfig(tree, AdjustEnv(a), EmptyMap)
            IN  /\ trace' = SeedSteps(a) \o StepsToEvaluate(obj)
                /\ model' = IF obj.statistics THEN SetStatisticsModules(model)
                            ELSE model
                /\ fetched' = tree
                /\ task_dict' = r.adjusted
                /\ lm' = [made |-> TRUE, rank |-> ad.rank,
                          has_model |-> ad.has_model, released |-> FALSE,
                          task_dict |-> r.lm_task_dict]
                /\ eval_call' = [made |-> TRUE,
                                 log_samples |-> LogSamplesPassed(a)]
                /\ result' = NoResult
                /\ pc' = "evaluating"

\* One forward call of the model inside evaluate(): the pre-hooks, the
\* forward pass, which takes dt ticks, and the post-hooks. A hook that raises
\* ends eval() with its exception.
ForwardCall(kw, dt) ==
    /\ pc = "evaluating"
    /\ forwards < MaxForwards
    /\ forwards' = forwards + 1
    /\ now' = now + dt
    /\ calls' = Append(calls, kw)
    /\ LET started == IF model.pre_hooks > 0 THEN StartTimeHook(model, now)
                      ELSE model
       IN  IF model.post_hooks > 0 /\ EndTimeHookRaises(kw)
           THEN /\ model' = started
                /\ result' = Raised("KeyError")
                /\ trace' = Append(trace, "KeyError")
                /\ pc' = "done"
                /\ fetched' = << >>
                /\ task_dict' = << >>
           ELSE /\ model' = RunEndTimeHooks(started, kw, now + dt,
                                            model.post_hooks)
                /\ UNCHANGED <<result, trace, pc, fetched, task_dict>>
    /\ UNCHANGED <<self, args, lm, eval_call, stats_log>>

\* lines 249-254: either average divides by a count of zero
AverageRaises(m) == m.prefill_count = 0 \/ m.decode_count = 0

\* lines 249-254: the averages, each as <<cumulative time, count>>
Averages(m) ==
    [prefill |-> <<m.prefill_time, m.prefill_count>>,
     decode |-> <<m.decode_time, m.decode_count>>]

\* lines 274-301: results['config']
ReportConfig(obj, a) ==
    [batch_size |-> obj.eval_bs,
     gen_kwargs |-> ParseGenKwargs(a.gen_kwargs),
     random_seed |-> a.random_seed,
     numpy_seed |-> a.numpy_random_seed,
     torch_seed |-> a.torch_random_seed,
     fewshot_seed |-> a.fewshot_random_seed]

\* lines 248-306: evaluate() has returned; eval() runs to its end.
EvalEnd ==
    /\ pc = "evaluating"
    /\ pc' = "done"
    /\ fetched' = << >>
    /\ task_dict' = << >>
    /\ IF self.statistics /\ AverageRaises(model)
       THEN /\ result' = Raised("ZeroDivisionError")
            /\ trace' = Append(trace, "ZeroDivisionError")
            /\ UNCHANGED <<lm, stats_log>>
       ELSE /\ stats_log' = IF self.statistics THEN Some(Averages(model))
                            ELSE None
            /\ lm' = [lm EXCEPT !.released = lm.has_model]
            /\ trace' = trace
                        \o (IF self.statistics THEN <<"log_statistics">>
                            ELSE << >>)
                        \o (IF lm.has_model THEN <<"del_model">> ELSE << >>)
                        \o <<"return">>
            /\ result' = IF lm.rank = 0
                         THEN [outcome |-> "report",
                               config |-> ReportConfig(self, args)]
                         ELSE [outcome |-> "None", config |-> EmptyMap]
    /\ UNCHANGED <<self, args, eval_call, model, now, calls, forwards>>

\* The caller moves on: what the run left behind is dropped. The model
\* object, its hooks and the clock stay.
Return ==
    /\ pc = "done"
    /\ pc' = "idle"
    /\ self' = PlainEval
    /\ args' = NoArgs
    /\ UNCHANGED <<fetched, task_dict>>
    /\ lm' = NoAdapter
    /\ eval_call' = NoCall
    /\ trace' = << >>
    /\ calls' = << >>
    /\ stats_log' = None
    /\ result' = NoResult
    /\ UNCHANGED <<model, now, forwards>>

\* ------------------------------------------------------------------------
\* Specifications
\* ------------------------------------------------------------------------

Init ==
    /\ pc = "idle"
    /\ self = PlainEval
    /\ args = NoArgs
    /\ fetched = << >>
    /\ task_dict = << >>
    /\ lm = NoAdapter
    /\ eval_call = NoCall
    /\ trace = << >>
    /\ model = FreshModel
    /\ now = 0
    /\ calls = << >>
    /\ forwards = 0
    /\ stats_log = None
    /\ result = NoResult

ArgSpace(NF, PO, GK, FS, LS, RS, NS, TS) ==
    [num_fewshot : NF, predict_only : PO, gen_kwargs : GK,
     fewshot_random_seed : FS, log_samples : LS,
     random_seed : RS, numpy_random_seed : NS, torch_random_seed : TS]

VQAEvals == {VQAEvalInit(c) : c \in EvalConfigs}

Adapters == [rank : {0, 1}, has_model : BOOLEAN]

\* The whole run: the object, the seeds and the adapter vary, the registry
\* returns the one task "a".
RunArgs ==
    ArgSpace({None}, {FALSE}, {None}, {1234}, {TRUE},
             {None, Some(0)}, {None, Some(1234)}, {None, Some(1234)})

RunTrees == {<<Entry("a", Leaf("generate_until", None))>>}

Next ==
    \/ /\ pc = "idle"
       /\ \E obj \in VQAEvals, a \in RunArgs, t \in RunTrees, ad \in Adapters :
            EvalBegin(obj, a, t, ad)
    \/ \E kw \in KwargKinds, dt \in 0..1 : ForwardCall(kw, dt)
    \/ EvalEnd
    \/ Return

Spec == Init /\ [][Next]_vars

\* The task tree and the arguments _adjust_config reads vary; the object has
\* one task name and no statistics, and the caller asks for no sample log.
AdjustArgs ==
    ArgSpace({None, Some(2)}, BOOLEAN,
             {None, Some(<< <<"temperature", "0">> >>)},
             {1234, 42}, {FALSE}, {Some(0)}, {Some(1234)}, {Some(1234)})

NextAdjust ==
    \/ /\ pc = "idle"
       /\ \E a \in AdjustArgs, t \in TaskTrees :
            EvalBegin(PlainEval, a, t, [rank |-> 0, has_model |-> TRUE])
    \/ EvalEnd
    \/ Return

SpecAdjust == Init /\ [][NextAdjust]_vars

\* ------------------------------------------------------------------------
\* Properties
\* ------------------------------------------------------------------------

\* the task objects of a tree in traversal order, tombstones left out
RECURSIVE KeptTasks(_)
KeptTasks(tree) ==
    IF tree = << >> THEN << >>
    ELSE LET n == Head(tree).node
         IN  (CASE n.kind = "group" -> KeptTasks(n.children)
                [] n.kind = "pair" ->
                        IF n.task.kind = "none" THEN << >> ELSE <<n.task>>
                [] OTHER -> <<n>>)
             \o KeptTasks(Tail(tree))

\* the names and kinds of a tree, tombstones left out, pairs unwrapped
RECURSIVE KeptShape(_)
KeptShape(tree) ==
    IF tree = << >> THEN << >>
    ELSE LET e == Head(tree)
         IN  (CASE e.node.kind = "group" ->
                        <<[name |-> e.name, kind |-> "group",
                           children |-> KeptShape(e.node.children)]>>
                [] e.node.kind = "pair" /\ e.node.task.kind = "none" -> << >>
                [] OTHER -> <<[name |-> e.name, kind |-> "leaf",
                               children |-> << >>]>>)
             \o KeptShape(Tail(tree))

\* the names and kinds of a tree as it stands
RECURSIVE Shape(_)
Shape(tree) ==
    IF tree = << >> THEN << >>
    ELSE LET e == Head(tree)
         IN  <<[name |-> e.name, kind |-> e.node.kind,
                children |-> IF e.node.kind = "group"
                             THEN Shape(e.node.children) ELSE << >>]>>
             \o Shape(Tail(tree))

RECURSIVE HasKind(_, _)
HasKind(tree, kind) ==
    \E i \in 1..Len(tree) :
        \/ tree[i].node.kind = kind
        \/ tree[i].node.kind = "group" /\ HasKind(tree[i].node.children, kind)
        \/ tree[i].node.kind = "pair" /\ tree[i].node.task.kind = kind

HasTombstone(tree) == HasKind(tree, "none")

Count(seq, x) == Cardinality({i \in 1..Len(seq) : seq[i] = x})

Has(seq, x) == \E i \in 1..Len(seq) : seq[i] = x

\* x and y both occur in seq, x first
Before(seq, x, y) ==
    \E i, j \in 1..Len(seq) : i < j /\ seq[i] = x /\ seq[j] = y

\* _adjust_config has returned and eval() is inside evaluate()
Adjusted == pc = "evaluating"

\* C1: after _adjust_config, every leaf of the adjusted tree has a num_fewshot
\* that is not None and a fewshot seed equal to the fewshot_random_seed
\* argument, whatever the tree and the arguments.
C1_LeafPostcondition ==
    Adjusted =>
        LET leaves == KeptTasks(task_dict)
        IN  \A i \in 1..Len(leaves) :
                /\ ~IsNone(leaves[i].num_fewshot)
                /\ leaves[i].fewshot_seed = Some(args.fewshot_random_seed)

\* a run with a nested leaf whose config sets no num_fewshot, a non-default
\* seed and the caller's num_fewshot set
C1_Witness ==
    /\ Adjusted
    /\ HasKind(fetched, "group")
    /\ \E i \in 1..Len(KeptTasks(fetched)) :
            IsNone(KeptTasks(fetched)[i].num_fewshot)
    /\ Len(KeptTasks(task_dict)) >= 2
    /\ args.fewshot_random_seed = 42
    /\ ~IsNone(args.num_fewshot)

\* the priority policy of the claim: v is the caller's num_fewshot, d the
\* leaf's configured one
PriorityPolicy(v, d) ==
    IF IsNone(v) /\ IsNone(d) THEN Some(0)
    ELSE IF ~IsNone(v) /\ d = Some(0) THEN Some(0)
    ELSE IF ~IsNone(v) THEN v
    ELSE d

\* C2: every leaf's num_fewshot after adjustment is what the priority policy
\* gives for the num_fewshot the caller passed and the leaf's configured
\* value.
C2_PolicyOnCallerArgument ==
    Adjusted =>
        LET after == KeptTasks(task_dict)
            before == KeptTasks(fetched)
        IN  /\ Len(after) = Len(before)
            /\ \A i \in 1..Len(after) :
                    after[i].num_fewshot =
                        PriorityPolicy(args.num_fewshot, before[i].num_fewshot)

\* C3 as claimed: when eval() fails on an empty task list, no seed has been
\* set and no adapter has been constructed.
C3_FailsBeforeSeeds ==
    result.outcome = "AssertionError" =>
        /\ ~Has(trace, "random.seed")
        /\ ~Has(trace, "np.random.seed")
        /\ ~Has(trace, "torch.manual_seed")
        /\ ~lm.made

\* C3 as amended: when eval() fails on an empty task list, no task has been
\* looked up, no hook installed, no adapter constructed and evaluate() not
\* called, and exactly the seeds whose arguments are not None have been set,
\* each before the failure.
C3_FailsAfterSeeds ==
    result.outcome = "AssertionError" =>
        /\ trace[Len(trace)] = "AssertionError"
        /\ ~Has(trace, "get_task_dict")
        /\ ~Has(trace, "set_statistics_modules")
        /\ ~Has(trace, "create_adapter")
        /\ ~Has(trace, "evaluate")
        /\ ~lm.made
        /\ Count(trace, "random.seed") = IF IsNone(args.random_seed) THEN 0 ELSE 1
        /\ Count(trace, "np.random.seed")
                = IF IsNone(args.numpy_random_seed) THEN 0 ELSE 1
        /\ Count(trace, "torch.manual_seed")
                = IF IsNone(args.torch_random_seed) THEN 0 ELSE 1

\* a failure on an empty task list after all three seeds were set
C3_Witness ==
    /\ result.outcome = "AssertionError"
    /\ self.eval_dataset_name = << >>
    /\ Before(trace, "random.seed", "AssertionError")
    /\ Before(trace, "np.random.seed", "AssertionError")
    /\ Before(trace, "torch.manual_seed", "AssertionError")

\* one step of an instrumented run that stays inside evaluate()
C4_Step ==
    (pc = "evaluating" /\ pc' = "evaluating" /\ self.statistics) =>
        /\ model'.prefill_count = Count(calls', "tensor")
        /\ model'.decode_count = Count(calls', "null")
        /\ model'.prefill_count >= model.prefill_count
        /\ model'.decode_count >= model.decode_count
        /\ model'.prefill_time >= model.prefill_time
        /\ model'.decode_time >= model.decode_time
        /\ model.prefill_time >= 0
        /\ model.decode_time >= 0

\* C4: in a run whose set_statistics_modules zeroed the counters, after N
\* forward calls of which K pass a tensor as inputs_embeds and the others pass
\* None, prefill_count is K and decode_count is N - K, and no counter and no
\* cumulative time is negative or decreases.
C4_CountsMatchCalls == [][C4_Step]_vars

\* C5: the adjusted tree has the input's groups under the same names, lacks
\* exactly the (group, None) pairs, keeps the order of the keys, and every
\* leaf in it has had set_fewshot_seed called once.
C5_TreeRebuilt ==
    Adjusted =>
        LET leaves == KeptTasks(task_dict)
        IN  /\ Shape(task_dict) = KeptShape(fetched)
            /\ \A i \in 1..Len(leaves) : leaves[i].seed_calls = 1

\* a tree of two siblings, one of them a group, with a tombstone in it
C5_Witness ==
    /\ Adjusted
    /\ Len(fetched) = 2
    /\ HasKind(fetched, "group")
    /\ HasTombstone(fetched)
    /\ Len(KeptTasks(task_dict)) >= 1

\* a leaf without its metric
Inference(leaf) ==
    [num_fewshot |-> leaf.num_fewshot,
     generation_kwargs |-> leaf.generation_kwargs,
     fewshot_seed |-> leaf.fewshot_seed]

\* the leaves _adjust_config yields for the run's tree and arguments with
\* predict_only as given
LeavesWith(predict_only) ==
    KeptTasks(AdjustConfig(fetched,
                           [AdjustEnv(args) EXCEPT !.predict_only = predict_only],
                           EmptyMap).adjusted)

\* C6: with predict_only every leaf's metric is 'bypass' and evaluate() gets
\* log_samples=True, and num_fewshot, generation_kwargs and fewshot seed are
\* those of the same call without predict_only.
C6_PredictOnlyFrame ==
    (Adjusted /\ args.predict_only) =>
        LET leaves == KeptTasks(task_dict)
            scored == LeavesWith(FALSE)
        IN  /\ eval_call.log_samples
            /\ Len(leaves) = Len(scored)
            /\ \A i \in 1..Len(leaves) :
                    /\ leaves[i].metric = "bypass"
                    /\ scored[i].metric = "acc"
                    /\ Inference(leaves[i]) = Inference(scored[i])

\* predict_only with log_samples=False passed, generation kwargs given and a
\* generate_until leaf whose kwargs they changed
C6_Witness ==
    /\ Adjusted
    /\ args.predict_only
    /\ ~args.log_samples
    /\ ~IsNone(args.gen_kwargs)
    /\ \E i \in 1..Len(KeptTasks(task_dict)) :
            /\ KeptTasks(task_dict)[i].output_type = "generate_until"
            /\ KeptTasks(task_dict)[i].generation_kwargs
                    # DefaultGenerationKwargs

\* the seeds that were set come before the step x
SeedsBefore(x) ==
    \A s \in {"random.seed", "np.random.seed", "torch.manual_seed"} :
        Has(trace, s) => Before(trace, s, x)

\* C7 as claimed: seeds, task lookup, _adjust_config, then with statistics the
\* hooks and the peak-memory reset, then evaluate(); nothing but evaluate()
\* follows the reset.
C7_ResetRightBeforeEvaluate ==
    Adjusted =>
        /\ SeedsBefore("get_task_dict")
        /\ Before(trace, "get_task_dict", "_adjust_config")
        /\ Before(trace, "_adjust_config", "evaluate")
        /\ self.statistics =>
            /\ Before(trace, "_adjust_config", "set_statistics_modules")
            /\ Before(trace, "set_statistics_modules", "reset_peak_memory_stats")
            /\ Before(trace, "reset_peak_memory_stats", "evaluate")
            /\ ~Before(trace, "reset_peak_memory_stats", "create_adapter")
            /\ ~Before(trace, "reset_peak_memory_stats", "_adjust_config")

\* C7 as amended: seeds, task lookup, then with statistics the hooks and the
\* peak-memory reset, then the adapter, _adjust_config and evaluate(); each
\* step happens once, and without statistics no hook is installed.
C7_ResetBeforeAdapter ==
    Adjusted =>
        /\ SeedsBefore("get_task_dict")
        /\ Before(trace, "get_task_dict", "create_adapter")
        /\ Before(trace, "create_adapter", "_adjust_config")
        /\ Before(trace, "_adjust_config", "evaluate")
        /\ \A x \in {"get_task_dict", "create_adapter", "_adjust_config",
                     "evaluate"} : Count(trace, x) = 1
        /\ IF self.statistics
           THEN /\ Before(trace, "get_task_dict", "set_statistics_modules")
                /\ Before(trace, "set_statistics_modules",
                          "reset_peak_memory_stats")
                /\ Before(trace, "reset_peak_memory_stats", "create_adapter")
                /\ Count(trace, "set_statistics_modules") = 1
                /\ Count(trace, "reset_peak_memory_stats") = 1
           ELSE /\ ~Has(trace, "set_statistics_modules")
                /\ ~Has(trace, "reset_peak_memory_stats")

\* an instrumented run, all seeds set, that has reached evaluate()
C7_Witness ==
    /\ pc = "evaluating"
    /\ self.statistics
    /\ Len(SeedSteps(args)) = 3
    /\ Before(trace, "reset_peak_memory_stats", "create_adapter")
    /\ Before(trace, "_adjust_config", "evaluate")

\* a forward call without an inputs_embeds keyword, on a model with one
\* post-hook
C8_Step ==
    (/\ pc = "evaluating"
     /\ model.post_hooks = 1
     /\ calls' = Append(calls, "absent")) =>
        /\ model'.decode_count = model.decode_count + 1
        /\ model'.prefill_count = model.prefill_count
        /\ result'.outcome # "KeyError"
        /\ pc' = "evaluating"

\* C8: the post-hook counts a forward call that has no inputs_embeds keyword
\* as decode and raises nothing.
C8_AbsentKeyIsDecode == [][C8_Step]_vars

\* C9: an instrumented run in which evaluate() returned with prefill_count or
\* decode_count at 0 does not fail: the adapter's _model is released when it
\* has one, and rank 0 gets the report.
C9_ZeroCountGuarded ==
    (/\ pc = "done"
     /\ self.statistics
     /\ Has(trace, "evaluate")
     /\ result.outcome # "KeyError"
     /\ (model.prefill_count = 0 \/ model.decode_count = 0)) =>
        /\ result.outcome \in {"report", "None"}
        /\ lm.released = lm.has_model
        /\ lm.rank = 0 => result.outcome = "report"

\* C10: in every instrumented run the model carries one pre-hook and one
\* post-hook, and the two counts add up to the forward calls of that run.
C10_TwoHooksPerRun ==
    (pc = "evaluating" /\ self.statistics) =>
        /\ model.pre_hooks = 1
        /\ model.post_hooks = 1
        /\ model.prefill_count + model.decode_count = Len(calls)

====
